---- MODULE Spec2Model ----
(***************************************************************************)
(* Claw-Kanban: the card run/review state machine and process supervision  *)
(* of the server (src/unnamed/part_004, the server's index.ts).            *)
(*                                                                         *)
(* State: the cards, card_runs and card_logs tables, the in-memory         *)
(* activeProcesses registry, the pending auto-review timers, the agent     *)
(* processes (CLI children and HTTP tasks) whose exit callback has not     *)
(* been handled yet, and the per-card log files.                           *)
(* One action per request handler, timer and exit callback.                *)
(* The system_logs table is global, append-only and read by no handler of  *)
(* the state machine; it is not part of the state.                         *)
(***************************************************************************)
EXTENDS Integers, Sequences, FiniteSets, TLC

VARIABLES
    cards,      \* cards table: card id -> row, or NoCard
    used,       \* card ids handed out by uuid() so far (never reused)
    runs,       \* card_runs table: card id -> rows of the card, oldest first
    cardLogs,   \* card_logs table: card id -> number of rows of the card
    active,     \* activeProcesses: card id -> [impl, review] -> handle or 0
    timers,     \* pending setTimeout(startReviewTest) per card: their projectPath
    procs,      \* card id -> agent processes / HTTP tasks not yet reaped
    files,      \* logs directory: card id -> [impl, review] -> content or NoFile
    up,         \* whether the server process is running
    wake,       \* wake notifications: key -> debounce entry and send in flight
    gateway,    \* the notifier in detail: clock, wakeDebounce, the attempt in flight
    last        \* history: the handler that ran last and its outcome

vars == <<cards, used, runs, cardLogs, active, timers, procs, files, up, wake, gateway, last>>

----------------------------------------------------------------------------
(* Values *)

\* The ids uuid() can hand out, and the card the single-card specifications
\* serve.
CardIds == {"c1", "c2"}
OneCard == {"c1"}

NULL == "null"
NoCard == [status |-> "none"]
NoFile == [exists |-> FALSE, owner |-> 0, text |-> <<>>]

CardStatus == {"Inbox", "Planned", "In Progress", "Review/Test", "Done", "Stopped"}

CliAgents == {"claude", "codex", "gemini", "opencode"}
HttpAgents == {"copilot", "antigravity"}
SupportedAgents == CliAgents \cup HttpAgents
ReviewAgent == "claude-review"

ServerCwd == "cwd"

\* A card's event log is capped: a handler that would append beyond the cap
\* is not taken.  This also bounds the number of operations per card.
MaxCardLogs == 5

\* Inputs of create and edit requests.
CreateStatuses == {"Inbox"}
PatchStatuses == {"Planned", "Review/Test", "Done"}
\* A status outside the enum, as a request body may carry it.
InvalidStatus == "Archived"
AssigneeInputs == {NULL, "copilot"}
PathInputs == {NULL, "", "/repo"}
\* Descriptions are sequences of trimmed lines.
Descriptions ==
    { <<"text">>,
      <<"## Project Path", "", "/desc">>,
      <<"## Project Path", "## Notes", "text">> }
\* The request bodies of POST /api/cards: every way of giving or not giving
\* a path, and both kinds of agent for a card that can be started.
CreateInput(a, pp, d) == [assignee |-> a, project_path |-> pp, description |-> d]

CreateInputs ==
    { CreateInput(NULL, "/repo", <<"text">>),
      CreateInput("copilot", "/repo", <<"text">>),
      CreateInput(NULL, NULL, <<"text">>),
      CreateInput(NULL, "", <<"text">>),
      CreateInput(NULL, NULL, <<"## Project Path", "", "/desc">>),
      CreateInput(NULL, "/repo", <<"## Project Path", "", "/desc">>),
      CreateInput(NULL, NULL, <<"## Project Path", "## Notes", "text">>) }

ExitCodes == {0, 1}

\* JavaScript truthiness of a nullable string.
Truthy(x) == x \notin {NULL, ""}

----------------------------------------------------------------------------
(* Pure helpers *)

\* extractProjectPath: the first non-empty line under a "## Project Path"
\* heading of the description, or null.
\* The English heading and the Korean one (written here in ASCII).
PathHeadings == {"## Project Path", "## Project Path (ko)"}
IsHeading(line) == line \in PathHeadings \cup {"## Notes"}

\* The inner loop from line j up to line lim: the first non-empty line, or
\* null at a line that starts with "## " or at the end.
RECURSIVE SectionValue(_, _, _)
SectionValue(lines, j, lim) ==
    IF j > lim THEN NULL
    ELSE IF lines[j] = "" THEN SectionValue(lines, j + 1, lim)
    ELSE IF IsHeading(lines[j]) THEN NULL
    ELSE lines[j]

SectionSpan == 5

Min(a, b) == IF a < b THEN a ELSE b
Max(a, b) == IF a > b THEN a ELSE b

\* The outer loop from line i on.
RECURSIVE ExtractFrom(_, _)
ExtractFrom(lines, i) ==
    IF i > Len(lines) THEN NULL
    ELSE IF lines[i] \in PathHeadings
            /\ SectionValue(lines, i + 1, Min(i + SectionSpan, Len(lines))) # NULL
         THEN SectionValue(lines, i + 1, Min(i + SectionSpan, Len(lines)))
         ELSE ExtractFrom(lines, i + 1)

extractProjectPath(description) == ExtractFrom(description, 1)

\* A resolution that prefers the description to the field.
resolveProjectPath_descFirst(card) ==
    IF Truthy(extractProjectPath(card.description))
    THEN extractProjectPath(card.description)
    ELSE IF Truthy(card.project_path) THEN card.project_path ELSE ServerCwd

\* resolveProjectPath: project_path field, else the extracted path, else cwd.
resolveProjectPath(card) ==
    IF Truthy(card.project_path) THEN card.project_path
    ELSE IF Truthy(extractProjectPath(card.description))
         THEN extractProjectPath(card.description)
         ELSE ServerCwd

\* A guard that lets every card through.
missingProjectPath_never(card) == FALSE

\* The guard of /run and /review on the project path.
missingProjectPath(card) ==
    ~Truthy(card.project_path) /\ ~Truthy(extractProjectPath(card.description))

Exists(c) == cards[c] # NoCard

\* SELECT * FROM card_runs WHERE card_id = ? ORDER BY created_at DESC LIMIT 1
LatestRun(c) == Len(runs[c])
HasRun(c) == Len(runs[c]) > 0

\* An update that is left out.
MarkLatestStopped_skipped(rs) == rs

\* An update that also forgets the pid of the Run.
MarkLatestStopped_clearsPid(rs) ==
    IF Len(rs) = 0 THEN rs
    ELSE [rs EXCEPT ![Len(rs)].status = "stopped", ![Len(rs)].pid = 0]

\* UPDATE card_runs SET status = 'stopped' WHERE id = (the latest run's id)
MarkLatestStopped(rs) ==
    IF Len(rs) = 0 THEN rs ELSE [rs EXCEPT ![Len(rs)].status = "stopped"]

\* UPDATE cards SET status = ? WHERE id = ?  (no row: no effect)
SetStatus(cs, c, s) ==
    IF cs[c] = NoCard THEN cs ELSE [cs EXCEPT ![c].status = s]

\* appendCardLog
CanLog(c, n) == cardLogs[c] + n <= MaxCardLogs
AppendLog(c, n) == [cardLogs EXCEPT ![c] = @ + n]

----------------------------------------------------------------------------
(* prettyStreamJson: the Output Normalizer.                                *)
(*                                                                         *)
(* A raw log is a sequence of lines (the result of split(/\r?\n/)); a text *)
(* is a sequence of tokens.  A line is                                     *)
(*   text    - a line that does not start with "{" after trim,             *)
(*   delta   - a JSON record carrying a text chunk t (a Claude text_delta, *)
(*             a Gemini message, a Codex agent_message),                   *)
(*   init    - a JSON record that yields a metadata line,                  *)
(*   ignored - a JSON record that parses and yields nothing,               *)
(*   partial - a line that starts with "{" and does not parse.             *)

TextLine(t) == [k |-> "text", t |-> t]
DeltaLine(t) == [k |-> "delta", t |-> t]
InitLine == [k |-> "init", t |-> <<>>]
IgnoredLine == [k |-> "ignored", t |-> <<>>]
PartialLine(t) == [k |-> "partial", t |-> t]

NL == "\n"
SP == " "
PARA == "\\u0000"
IsSpace(ch) == ch \in {NL, SP}

\* A newline inside a JSON string is written as an escape.
ESC == "\\n"
Escaped(t) == [i \in 1..Len(t) |-> IF t[i] = NL THEN ESC ELSE t[i]]
Unescaped(t) == [i \in 1..Len(t) |-> IF t[i] = ESC THEN NL ELSE t[i]]

\* The characters of a line as they stand in the file.
LineChars(line) ==
    CASE line.k = "text" -> line.t
      [] line.k = "delta" -> <<"{delta:">> \o Escaped(line.t) \o <<"}">>
      [] line.k = "init" -> <<"{init}">>
      [] line.k = "ignored" -> <<"{}">>
      [] OTHER -> <<"{">> \o line.t

RECURSIVE JoinLines(_)
JoinLines(raw) ==
    IF Len(raw) = 0 THEN <<>>
    ELSE IF Len(raw) = 1 THEN LineChars(raw[1])
    ELSE LineChars(raw[1]) \o <<NL>> \o JoinLines(Tail(raw))

RECURSIVE TrimStart(_)
TrimStart(t) ==
    IF Len(t) > 0 /\ IsSpace(t[1]) THEN TrimStart(Tail(t)) ELSE t

RECURSIVE TrimEnd(_)
TrimEnd(t) ==
    IF Len(t) > 0 /\ IsSpace(t[Len(t)]) THEN TrimEnd(SubSeq(t, 1, Len(t) - 1)) ELSE t

\* A trim that takes one character off each end.
Trim_once(t) ==
    LET a == IF Len(t) > 0 /\ IsSpace(t[1]) THEN Tail(t) ELSE t
    IN IF Len(a) > 0 /\ IsSpace(a[Len(a)]) THEN SubSeq(a, 1, Len(a) - 1) ELSE a

\* String.prototype.trim
Trim(t) == TrimEnd(TrimStart(t))

\* chunks.join("") over the lines that push a chunk
RECURSIVE Stitched(_)
Stitched(raw) ==
    IF Len(raw) = 0 THEN <<>>
    ELSE (IF raw[1].k = "delta" THEN raw[1].t ELSE <<>>) \o Stitched(Tail(raw))

\* meta.join("\n") over the lines that push a metadata line
RECURSIVE MetaLines(_)
MetaLines(raw) ==
    IF Len(raw) = 0 THEN <<>>
    ELSE (IF raw[1].k = "init" THEN <<"[init]">> ELSE <<>>) \o MetaLines(Tail(raw))

RECURSIVE JoinMeta(_)
JoinMeta(m) ==
    IF Len(m) = 0 THEN <<>>
    ELSE IF Len(m) = 1 THEN <<m[1]>>
    ELSE <<m[1], NL>> \o JoinMeta(Tail(m))

\* stitched.replace(/\n{2,}/g, PARA)
RECURSIVE SkipNewlines(_)
SkipNewlines(t) == IF Len(t) > 0 /\ t[1] = NL THEN SkipNewlines(Tail(t)) ELSE t

RECURSIVE WithPara(_)
WithPara(t) ==
    IF Len(t) = 0 THEN <<>>
    ELSE IF Len(t) >= 2 /\ t[1] = NL /\ t[2] = NL
         THEN <<PARA>> \o WithPara(SkipNewlines(t))
         ELSE <<t[1]>> \o WithPara(Tail(t))

\* .replace(/\n/g, " ").replace(/\s+/g, " ")
RECURSIVE SkipSpaces(_)
SkipSpaces(t) == IF Len(t) > 0 /\ IsSpace(t[1]) THEN SkipSpaces(Tail(t)) ELSE t

RECURSIVE CollapseSpaces(_)
CollapseSpaces(t) ==
    IF Len(t) = 0 THEN <<>>
    ELSE IF IsSpace(t[1]) THEN <<SP>> \o CollapseSpaces(SkipSpaces(t))
         ELSE <<t[1]>> \o CollapseSpaces(Tail(t))

\* .replace(new RegExp(PARA, "g"), "\n\n")
RECURSIVE ParaToBreak(_)
ParaToBreak(t) ==
    IF Len(t) = 0 THEN <<>>
    ELSE (IF t[1] = PARA THEN <<NL, NL>> ELSE <<t[1]>>) \o ParaToBreak(Tail(t))

prettyStreamJson(raw) ==
    LET chunks == Stitched(raw)
        meta == MetaLines(raw)
        pushed == \E i \in 1..Len(raw) : raw[i].k \in {"delta", "init"}
        normalized == Trim(ParaToBreak(CollapseSpaces(WithPara(chunks))))
        head == IF Len(meta) > 0 THEN JoinMeta(meta) \o <<NL, NL>> ELSE <<>>
    IN IF ~pushed THEN Trim(JoinLines(raw)) ELSE head \o normalized

\* raw.split(/\r?\n/) on a text
RECURSIVE SplitLines(_)
SplitLines(chars) ==
    IF \A i \in 1..Len(chars) : chars[i] # NL THEN <<chars>>
    ELSE LET i == CHOOSE j \in 1..Len(chars) :
                     chars[j] = NL /\ \A k \in 1..(j - 1) : chars[k] # NL
         IN <<SubSeq(chars, 1, i - 1)>> \o SplitLines(SubSeq(chars, i + 1, Len(chars)))

\* One pass of the loop body on the characters of a line: line.trim(), the
\* two `continue` tests, JSON.parse in its try block and the record tests.
\* A line that pushes nothing keeps its characters: when they are not the
\* characters LineChars gives its kind, it is kept as they stand (the loop
\* skips it either way).
BraceTokens == {"{", "{}", "{init}", "{delta:"}

ParseLine(chars) ==
    LET t == Trim(chars)
    IN IF Len(t) = 0 \/ t[1] \notin BraceTokens THEN TextLine(chars)
       ELSE IF t = <<"{init}">> THEN InitLine
       ELSE IF Len(t) >= 3 /\ t[1] = "{delta:" /\ t[Len(t)] = "}"
               /\ \A i \in 2..(Len(t) - 1) : t[i] \notin BraceTokens \cup {"}"}
            THEN DeltaLine(Unescaped(SubSeq(t, 2, Len(t) - 1)))
       ELSE IF chars = <<"{}">> THEN IgnoredLine
       ELSE IF chars[1] = "{" THEN PartialLine(Tail(chars))
       ELSE TextLine(chars)

ParseText(chars) ==
    LET ls == SplitLines(chars) IN [i \in 1..Len(ls) |-> ParseLine(ls[i])]

\* String.prototype.includes and toLowerCase on texts
Includes(t, needle) ==
    \E i \in 1..(Len(t) - Len(needle) + 1) : SubSeq(t, i, i + Len(needle) - 1) = needle

LowerToken(ch) ==
    CASE ch = "Looks" -> "looks"
      [] ch = "REVIEW_" -> "review_"
      [] ch = "PASSED" -> "passed"
      [] OTHER -> ch

toLowerCase(t) == [i \in 1..Len(t) |-> LowerToken(t[i])]

SENTINEL == <<"REVIEW_", "PASSED">>
LOOKS_GOOD == <<"looks", SP, "good">>

\* A verdict by exact match instead of containment.
ReviewPassed_exact(reviewLog) ==
    reviewLog = SENTINEL \/ toLowerCase(reviewLog) = LOOKS_GOOD

\* const passed = reviewLog.includes("REVIEW_PASSED") ||
\*                reviewLog.toLowerCase().includes("looks good")
ReviewPassed(reviewLog) ==
    Includes(reviewLog, SENTINEL) \/ Includes(toLowerCase(reviewLog), LOOKS_GOOD)

\* What agents write to their log in this model.
ImplOutputs == { <<DeltaLine(<<"x">>)>> }
ReviewOutputs ==
    { <<TextLine(SENTINEL)>>,
      <<TextLine(<<"x">>)>>,
      <<DeltaLine(<<"x", SP, "REVIEW_">>), DeltaLine(<<"PASSED">>)>>,
      <<InitLine, TextLine(SENTINEL)>>,
      <<DeltaLine(<<"Looks", NL, "good">>)>> }

----------------------------------------------------------------------------
(* Processes and registry handles *)

NoHandle == [id |-> 0, pid |-> 0]
NoHandles == [impl |-> NoHandle, review |-> NoHandle]
NoFiles == [impl |-> NoFile, review |-> NoFile, prompt |-> FALSE]

\* The process spawned for the run with index k of a card.  A CLI child has
\* the positive pid k, an HTTP task the negative sentinel -k, and a child
\* whose spawn failed (ENOENT) has no pid (0) and never comes to exist.
\* For an HTTP task, outcome is how its request and stream ended ("pending"
\* until then) and exitCode is the task's variable of that name; alive is
\* FALSE once its controller was aborted.
NewProc(k, phase, http, spawned, cwd) ==
    [id |-> k, phase |-> phase, http |-> http,
     pid |-> IF http THEN -k ELSE IF spawned THEN k ELSE 0,
     alive |-> spawned, failed |-> ~spawned, watched |-> TRUE, cwd |-> cwd,
     outcome |-> "pending", exitCode |-> 0]

HandleOf(p) == [id |-> p.id, pid |-> p.pid]

NewRun(agent, p, logPath) ==
    [agent |-> agent, pid |-> p.pid, status |-> "running",
     log_path |-> logPath, cwd |-> p.cwd, proc |-> p.id]

\* A process the server no longer watches is gone once it is dead.
Present(ps) == {p \in ps : p.watched \/ p.alive}

\* killPidTree(pid): SIGTERM to the process group and the process.
killPidTree(ps, pid) ==
    Present({IF p.pid = pid /\ ~p.http THEN [p EXCEPT !.alive = FALSE] ELSE p : p \in ps})

\* handle.kill(): SIGTERM to a child, controller.abort() for an HTTP task.
killHandle(ps, h) ==
    Present({IF p.id = h.id THEN [p EXCEPT !.alive = FALSE] ELSE p : p \in ps})

\* The server process ends (crash or restart): the children are detached and
\* live on unwatched, the HTTP tasks end with it.
Orphaned(ps) == {[p EXCEPT !.watched = FALSE] : p \in {q \in ps : ~q.http /\ q.alive}}

Event(op, c, res, k, code) ==
    [op |-> op, card |-> c, res |-> res, proc |-> k, code |-> code]

----------------------------------------------------------------------------
(* Wake notifications to the gateway: queueWake, shouldSendWake,           *)
(* sendGatewayWake.  Per key: "idle" (no debounce entry), "sending" (an    *)
(* entry and a send in flight), "quiet" (an entry, no send in flight).     *)
(* Whether an entry is younger than the caller's debounce time is read off *)
(* the clock at the call: an input.  The sweep of old entries needs more   *)
(* than 2000 keys and never runs here.                                     *)

WakeKinds == {"inbox", "done", "review-issues"}
WakeKeys == [kind : WakeKinds, card : CardIds]
WakeKey(kind, c) == [kind |-> kind, card |-> c]
NoKey == [kind |-> "none", card |-> "none"]
NoWakes == [k \in WakeKeys |-> "idle"]
WakeOutcomes == {"sent", "failed", "timeout"}

\* The notifier in detail.  The clock is Date.now(); wakeDebounce holds the
\* time of the last accepted wake per key (0: no entry); attempt is the one
\* call of sendGatewayWake this model follows, or NoAttempt.
ClockStart == 4000
NoAttempt == [id |-> 0]
NoGateway ==
    [now |-> ClockStart, wakeDebounce |-> [k \in WakeKeys |-> 0], attempt |-> NoAttempt,
     attempts |-> 0]

\* shouldSendWake: FALSE when the key has an entry younger than debounceMs.
shouldSendWake(w, key, fresh) == ~(w[key] # "idle" /\ fresh)

\* queueWake with a gateway configured: void sendGatewayWake(...).catch(...)
queueWake(w, key, fresh) ==
    IF shouldSendWake(w, key, fresh) THEN [w EXCEPT ![key] = "sending"] ELSE w

----------------------------------------------------------------------------
(* Initial state: an empty database, registry and logs directory *)

Init ==
    /\ cards = [c \in CardIds |-> NoCard]
    /\ used = {}
    /\ runs = [c \in CardIds |-> <<>>]
    /\ cardLogs = [c \in CardIds |-> 0]
    /\ active = [c \in CardIds |-> NoHandles]
    /\ timers = [c \in CardIds |-> <<>>]
    /\ procs = [c \in CardIds |-> {}]
    /\ files = [c \in CardIds |-> NoFiles]
    /\ up = TRUE
    /\ wake = NoWakes
    /\ gateway = NoGateway
    /\ last = Event("init", "none", "ok", 0, 0)

----------------------------------------------------------------------------
(* POST /api/cards and PATCH /api/cards/:id *)

CreateCard(c, status, assignee, path, description) ==
    /\ c \notin used
    /\ CanLog(c, 1)
    /\ cards' = [cards EXCEPT ![c] =
                    [status |-> status, assignee |-> assignee,
                     project_path |-> path, description |-> description]]
    /\ used' = used \cup {c}
    /\ cardLogs' = AppendLog(c, 1)
    /\ last' = Event("create", c, "ok", 0, 0)
    /\ UNCHANGED <<runs, active, timers, procs, files, up>>

PatchCard(c, field, value) ==
    /\ Exists(c)
    /\ CanLog(c, 1)
    /\ cards' = [cards EXCEPT ![c] = [@ EXCEPT ![field] = value]]
    /\ cardLogs' = AppendLog(c, 1)
    /\ last' = Event("patch", c, "ok", 0, 0)
    /\ UNCHANGED <<used, runs, active, timers, procs, files, up>>

----------------------------------------------------------------------------
(* spawnAgent / launchHttpAgent: what a launch does to the registry, the   *)
(* process table, the logs directory and the event log.  The log is opened *)
(* with flags "w" (created or truncated) and the prompt file is written.   *)
(* When the spawn fails, the child's error event is emitted on the next    *)
(* tick, before any other handler runs: its handler writes the error to    *)
(* the log, deletes the registry key and appends an event-log row.  A     *)
(* child without pid has no stdio handles to wait for, so its close event  *)
(* is emitted in that same tick: the prompt file is unlinked and the       *)
(* caller's exit callback runs before any other request is served.         *)

SpawnErrorText == <<TextLine(<<"SPAWN ERROR">>)>>

Launch(c, p) ==
    /\ procs' = [procs EXCEPT ![c] = IF p.failed THEN @ ELSE @ \cup {p}]
    /\ active' = [active EXCEPT ![c][p.phase] = IF p.failed THEN NoHandle ELSE HandleOf(p)]
    /\ files' = [files EXCEPT ![c][p.phase] =
                     [exists |-> TRUE, owner |-> p.id,
                      text |-> IF p.failed THEN SpawnErrorText ELSE <<>>],
                              ![c].prompt = ~p.failed]

\* Event-log rows of a launch: the handler's own and, when the spawn fails,
\* the error handler's and the exit callback's.
LaunchRows(p) == IF p.failed THEN 3 ELSE 1

\* A rejection that leaves a row in the card's event log.
Reject_logged(op, c, error) ==
    /\ last' = Event(op, c, error, 0, 0)
    /\ cardLogs' = AppendLog(c, 1)
    /\ UNCHANGED <<cards, used, runs, active, timers, procs, files, up>>

Reject(op, c, error) ==
    /\ last' = Event(op, c, error, 0, 0)
    /\ UNCHANGED <<cards, used, runs, cardLogs, active, timers, procs, files, up>>

AgentOf(card) == IF Truthy(card.assignee) THEN card.assignee ELSE "claude"

\* A PATCH handler that stores the status as it comes.
PatchStatus_unchecked(c, status) ==
    IF ~Exists(c) THEN Reject("patch", c, "not_found")
    ELSE PatchCard(c, "status", status)

\* PATCH /api/cards/:id with a status: patchSchema.parse throws on a status
\* outside CardStatus before anything is read or written.
PatchStatus(c, status) ==
    IF status \notin CardStatus THEN Reject("patch", c, "invalid_body")
    ELSE IF ~Exists(c) THEN Reject("patch", c, "not_found")
    ELSE PatchCard(c, "status", status)

\* POST /api/cards: createCardSchema.parse throws on a status outside
\* CardStatus; no id is drawn.
CreateRequest(c, status, in) ==
    IF status \notin CardStatus THEN c \notin used /\ Reject("create", c, "invalid_body")
    ELSE CreateCard(c, status, in.assignee, in.project_path, in.description)

(* POST /api/cards/:id/run *)
StartRun(c, spawned) ==
    IF ~Exists(c) THEN spawned /\ Reject("start", c, "not_found")
    ELSE IF AgentOf(cards[c]) \notin SupportedAgents
         THEN spawned /\ Reject("start", c, "unsupported_agent")
    ELSE IF missingProjectPath(cards[c])
         THEN spawned /\ Reject("start", c, "missing_project_path")
    ELSE
      LET agent == AgentOf(cards[c])
          http == agent \in HttpAgents
          k == Len(runs[c]) + 1
          p == NewProc(k, "impl", http, spawned, resolveProjectPath(cards[c]))
      IN /\ http => spawned
         /\ CanLog(c, LaunchRows(p))
         /\ cardLogs' = AppendLog(c, LaunchRows(p))
         /\ Launch(c, p)
         /\ runs' = [runs EXCEPT ![c] =
                        IF p.failed THEN MarkLatestStopped(Append(@, NewRun(agent, p, "impl")))
                        ELSE Append(@, NewRun(agent, p, "impl"))]
         /\ cards' = SetStatus(cards, c, "In Progress")
         /\ last' = Event("start", c, "ok", k, 0)
         /\ UNCHANGED <<used, timers, up>>

\* A startReviewTest that returns early only when the card has no row.
startReviewTest_anyStatus(c, projectPath, spawned, op) ==
    IF ~Exists(c)
    THEN /\ spawned
         /\ last' = Event(op, c, "skipped", 0, 0)
         /\ UNCHANGED <<cards, used, runs, cardLogs, active, procs, files, up>>
    ELSE
      LET k == Len(runs[c]) + 1
          p == NewProc(k, "review", FALSE, spawned, projectPath)
      IN /\ CanLog(c, LaunchRows(p))
         /\ cardLogs' = AppendLog(c, LaunchRows(p))
         /\ Launch(c, p)
         /\ runs' = [runs EXCEPT ![c] = Append(@, NewRun(ReviewAgent, p, "review"))]
         /\ last' = Event(op, c, "ok", k, 0)
         /\ UNCHANGED <<cards, used, up>>

(* startReviewTest(cardId, projectPath): TRUE branch is the early return *)
startReviewTest(c, projectPath, spawned, op) ==
    IF ~Exists(c) \/ cards[c].status # "Review/Test"
    THEN /\ spawned
         /\ last' = Event(op, c, "skipped", 0, 0)
         /\ UNCHANGED <<cards, used, runs, cardLogs, active, procs, files, up>>
    ELSE
      LET k == Len(runs[c]) + 1
          p == NewProc(k, "review", FALSE, spawned, projectPath)
      IN /\ CanLog(c, LaunchRows(p))
         /\ cardLogs' = AppendLog(c, LaunchRows(p))
         /\ Launch(c, p)
         /\ runs' = [runs EXCEPT ![c] = Append(@, NewRun(ReviewAgent, p, "review"))]
         /\ last' = Event(op, c, "ok", k, 0)
         /\ UNCHANGED <<cards, used, up>>

\* A review handler without its own status guard.
StartReview_unguarded(c, spawned) ==
    IF ~Exists(c) THEN spawned /\ Reject("review", c, "not_found")
    ELSE IF missingProjectPath(cards[c])
         THEN spawned /\ Reject("review", c, "missing_project_path")
    ELSE /\ startReviewTest(c, resolveProjectPath(cards[c]), spawned, "review")
         /\ UNCHANGED timers

(* POST /api/cards/:id/review *)
StartReview(c, spawned) ==
    IF ~Exists(c) THEN spawned /\ Reject("review", c, "not_found")
    ELSE IF cards[c].status # "Review/Test"
         THEN spawned /\ Reject("review", c, "card_not_in_review_test")
    ELSE IF missingProjectPath(cards[c])
         THEN spawned /\ Reject("review", c, "missing_project_path")
    ELSE /\ startReviewTest(c, resolveProjectPath(cards[c]), spawned, "review")
         /\ UNCHANGED timers

(* The timer set by handleRunComplete fires: startReviewTest(cardId, projectPath) *)
ReviewTimer(c, spawned) ==
    /\ timers[c] # <<>>
    /\ timers' = [timers EXCEPT ![c] = Tail(@)]
    /\ startReviewTest(c, Head(timers[c]), spawned, "timer")

----------------------------------------------------------------------------
(* POST /api/cards/:id/stop *)

\* activeProcesses.get(id) ?? activeProcesses.get(`${id}:review`)
ActiveChild(c) ==
    IF active[c].impl # NoHandle THEN active[c].impl ELSE active[c].review

\* A target taken from the latest Run first.
StopPid_recordedFirst(c) ==
    IF HasRun(c) /\ runs[c][LatestRun(c)].pid # 0 THEN runs[c][LatestRun(c)].pid
    ELSE ActiveChild(c).pid

\* activeChild?.pid ?? run?.pid   (0 stands for null / undefined)
StopPid(c) ==
    IF ActiveChild(c).pid # 0 THEN ActiveChild(c).pid
    ELSE IF HasRun(c) THEN runs[c][LatestRun(c)].pid ELSE 0

\* A stop that hands every pid to killPidTree.
StopKill_anyPid(c, ps, pid) == killPidTree(ps, pid)

\* The termination stop sends for pid: kill() of the handle for a negative
\* pid (if a handle is in memory), killPidTree otherwise.
StopKill(c, ps, pid) ==
    IF pid < 0
    THEN IF ActiveChild(c) # NoHandle THEN killHandle(ps, ActiveChild(c)) ELSE ps
    ELSE killPidTree(ps, pid)

StopRun(c) ==
    IF ~Exists(c) THEN Reject("stop", c, "not_found")
    ELSE IF StopPid(c) = 0
    THEN /\ CanLog(c, 1)
         /\ cardLogs' = AppendLog(c, 1)
         /\ last' = Event("stop", c, "no_pid", 0, 0)
         /\ UNCHANGED <<cards, used, runs, active, timers, procs, files, up>>
    ELSE /\ CanLog(c, 1)
         /\ procs' = [procs EXCEPT ![c] = StopKill(c, @, StopPid(c))]
         /\ active' = [active EXCEPT ![c] = NoHandles]
         /\ cardLogs' = AppendLog(c, 1)
         /\ runs' = [runs EXCEPT ![c] = MarkLatestStopped(@)]
         /\ cards' = SetStatus(cards, c, "Stopped")
         /\ last' = Event("stop", c, "ok", 0, StopPid(c))
         /\ UNCHANGED <<used, timers, files, up>>

----------------------------------------------------------------------------
(* deleteCardAndArtifacts and DELETE /api/cards/:id *)

\* The loop over both registry keys: kill() for a negative pid,
\* killPidTree for a positive one, nothing for a handle without pid.
KillRegistered(ps, h) ==
    IF h.pid = 0 THEN ps
    ELSE IF h.pid < 0 THEN killHandle(ps, h) ELSE killPidTree(ps, h.pid)

\* The fallback on the latest run's recorded pid.
KillRecorded(c, ps) ==
    IF HasRun(c) /\ runs[c][LatestRun(c)].pid > 0
    THEN killPidTree(ps, runs[c][LatestRun(c)].pid) ELSE ps

\* The processes of the card after both termination steps.
DeletedProcs(c) ==
    KillRecorded(c, KillRegistered(KillRegistered(procs[c], active[c].impl),
                                   active[c].review))

deleteCardAndArtifacts(c) ==
    /\ procs' = [procs EXCEPT ![c] = DeletedProcs(c)]
    /\ active' = [active EXCEPT ![c] = NoHandles]
    /\ runs' = [runs EXCEPT ![c] = <<>>]
    /\ cardLogs' = [cardLogs EXCEPT ![c] = 0]
    /\ cards' = [cards EXCEPT ![c] = NoCard]
    /\ files' = [files EXCEPT ![c] = NoFiles]

DeleteCard(c) ==
    IF ~Exists(c) THEN Reject("delete", c, "not_found")
    ELSE /\ deleteCardAndArtifacts(c)
         /\ last' = Event("delete", c, "ok", 0, 0)
         /\ UNCHANGED <<used, timers, up>>

\* A purge that selects every card.
PurgeIds_all(status) == {c \in CardIds : Exists(c)}

(* POST /api/cards/purge?status=...: deleteCardAndArtifacts for every card *)
(* in the given status, one after the other in the same handler.  The      *)
(* response reports ids.length.                                            *)
PurgeIds(status) == {c \in CardIds : Exists(c) /\ cards[c].status = status}

Purge(status) ==
    LET ids == PurgeIds(status)
    IN /\ procs' = [c \in CardIds |-> IF c \in ids THEN DeletedProcs(c) ELSE procs[c]]
       /\ active' = [c \in CardIds |-> IF c \in ids THEN NoHandles ELSE active[c]]
       /\ runs' = [c \in CardIds |-> IF c \in ids THEN <<>> ELSE runs[c]]
       /\ cardLogs' = [c \in CardIds |-> IF c \in ids THEN 0 ELSE cardLogs[c]]
       /\ cards' = [c \in CardIds |-> IF c \in ids THEN NoCard ELSE cards[c]]
       /\ files' = [c \in CardIds |-> IF c \in ids THEN NoFiles ELSE files[c]]
       /\ last' = Event("purge", "none", "ok", 0, Cardinality(ids))
       /\ UNCHANGED <<used, timers, up>>

----------------------------------------------------------------------------
(* Exit callbacks *)

\* An uncaught exception in an event handler ends the server process: the
\* registry and the timers are lost.
Crash ==
    /\ up' = FALSE
    /\ active' = [c \in CardIds |-> NoHandles]
    /\ timers' = [c \in CardIds |-> <<>>]
    /\ procs' = [c \in CardIds |-> Orphaned(procs[c])]

\* handleRunComplete(cardId, exitCode, projectPath), the statements after
\* activeProcesses.delete(cardId)
runCompleteEffects(c, code, projectPath) ==
    /\ CanLog(c, 1)
    /\ cardLogs' = AppendLog(c, 1)
    /\ runs' = [runs EXCEPT ![c] = MarkLatestStopped(@)]
    /\ cards' = IF code = 0 THEN SetStatus(cards, c, "Review/Test") ELSE cards
    /\ timers' = IF code = 0 THEN [timers EXCEPT ![c] = Append(@, projectPath)] ELSE timers

\* handleReviewComplete(cardId, exitCode), the statements after
\* activeProcesses.delete(`${cardId}:review`)
ReviewLogText(c) == IF files[c].review.exists THEN files[c].review.text ELSE <<>>

\* A verdict taken from the log whatever the exit code.
reviewCompleteEffects_anyCode(c, code) ==
    /\ CanLog(c, 1)
    /\ cardLogs' = AppendLog(c, 1)
    /\ cards' = IF ReviewPassed(prettyStreamJson(ReviewLogText(c)))
                THEN SetStatus(cards, c, "Done") ELSE cards

reviewCompleteEffects(c, code) ==
    /\ CanLog(c, 1)
    /\ cardLogs' = AppendLog(c, 1)
    /\ cards' = IF code = 0 /\ ReviewPassed(prettyStreamJson(ReviewLogText(c)))
                THEN SetStatus(cards, c, "Done") ELSE cards

\* The try and catch blocks of an HTTP task: exitCode stays 0 when the
\* executor returns and becomes 1 when it throws.
HttpExitCode_abortIsZero(outcome) == IF outcome = "error" THEN 1 ELSE 0

HttpExitCode(outcome) == IF outcome = "completed" THEN 0 ELSE 1

\* How the executor of a task can end.  The abort signal is handed to fetch:
\* an abort before the stream has ended rejects the request or the pending
\* read with an AbortError, so the executor throws.
HttpOutcomes(p) == IF p.alive THEN {"completed", "error"} ELSE {"aborted"}

\* The line the catch block writes to the task's log.
CatchLine(outcome) == TextLine(<<outcome>>)

\* The executor of an HTTP task returns or throws; the task goes on to
\* `await logStream.end`.
HttpSettle(c, p, outcome) ==
    /\ p \in procs[c] /\ p.http /\ p.watched /\ p.outcome = "pending"
    /\ outcome \in HttpOutcomes(p)
    /\ procs' = [procs EXCEPT ![c] =
                    (@ \ {p}) \cup {[p EXCEPT !.outcome = outcome,
                                               !.exitCode = HttpExitCode(outcome)]}]
    /\ files' = IF outcome # "completed" /\ files[c].impl.exists /\ files[c].impl.owner = p.id
                THEN [files EXCEPT ![c].impl.text = Append(@, CatchLine(outcome))]
                ELSE files
    /\ last' = Event("settle", c, outcome, p.id, HttpExitCode(outcome))
    /\ UNCHANGED <<cards, used, runs, cardLogs, active, timers, up>>

\* The close event of an implementation child, or the end of an HTTP task
\* (its finally block, reached once the executor has returned or thrown).
\* The prompt file is unlinked first (spawnAgent's own close handler, the
\* finally block of the HTTP task).
\* fkThrows: appendCardLog for a card without row fails on the foreign key
\* (node:sqlite enforces foreign keys by default from 22.10 on; older builds
\* insert the row).
RunExit(c, p, code, fkThrows) ==
    /\ p \in procs[c] /\ p.phase = "impl" /\ p.watched
    /\ p.http => (p.outcome # "pending" /\ code = p.exitCode)
    /\ fkThrows => ~Exists(c)
    /\ files' = [files EXCEPT ![c].prompt = FALSE]
    /\ IF ~fkThrows
       THEN /\ active' = [active EXCEPT ![c].impl = NoHandle]
            /\ procs' = [procs EXCEPT ![c] = @ \ {p}]
            /\ runCompleteEffects(c, code, p.cwd)
            /\ last' = Event("runExit", c, "ok", p.id, code)
            /\ UNCHANGED <<used, up>>
       ELSE IF p.http
       THEN /\ active' = [active EXCEPT ![c].impl = NoHandle]
            /\ procs' = [procs EXCEPT ![c] = @ \ {p}]
            /\ last' = Event("runExit", c, "threw", p.id, code)
            /\ UNCHANGED <<cards, used, runs, cardLogs, timers, up>>
       ELSE /\ Crash
            /\ last' = Event("runExit", c, "crash", p.id, code)
            /\ UNCHANGED <<cards, used, runs, cardLogs>>

\* The close event of a review child.
ReviewExit(c, p, code, fkThrows) ==
    /\ p \in procs[c] /\ p.phase = "review" /\ p.watched
    /\ fkThrows => ~Exists(c)
    /\ files' = [files EXCEPT ![c].prompt = FALSE]
    /\ IF ~fkThrows
       THEN /\ active' = [active EXCEPT ![c].review = NoHandle]
            /\ procs' = [procs EXCEPT ![c] = @ \ {p}]
            /\ reviewCompleteEffects(c, code)
            /\ last' = Event("reviewExit", c, "ok", p.id, code)
            /\ UNCHANGED <<used, runs, timers, up>>
       ELSE /\ Crash
            /\ last' = Event("reviewExit", c, "crash", p.id, code)
            /\ UNCHANGED <<cards, used, runs, cardLogs>>

\* An agent writes its output to the log it opened.
AgentWrite(c, p, out) ==
    /\ p \in procs[c] /\ p.watched /\ p.alive
    /\ files[c][p.phase].exists /\ files[c][p.phase].owner = p.id
    /\ files[c][p.phase].text = <<>>
    /\ files' = [files EXCEPT ![c][p.phase].text = out]
    /\ last' = Event("write", c, "ok", p.id, 0)
    /\ UNCHANGED <<cards, used, runs, cardLogs, active, timers, procs, up>>

\* An unwatched child ends.
ProcGone(c, p) ==
    /\ p \in procs[c] /\ ~p.watched
    /\ procs' = [procs EXCEPT ![c] = @ \ {p}]
    /\ last' = Event("gone", c, "ok", p.id, 0)
    /\ UNCHANGED <<cards, used, runs, cardLogs, active, timers, files, up>>

\* The server is started again (after a crash, or by the operator).
Restart ==
    /\ \/ ~up
       \/ \E c \in CardIds : active[c] # NoHandles \/ timers[c] # <<>> \/ procs[c] # {}
    /\ up' = TRUE
    /\ active' = [c \in CardIds |-> NoHandles]
    /\ timers' = [c \in CardIds |-> <<>>]
    /\ procs' = [c \in CardIds |-> Orphaned(procs[c])]
    /\ last' = Event("restart", "none", "ok", 0, 0)
    /\ UNCHANGED <<cards, used, runs, cardLogs, files>>

----------------------------------------------------------------------------
(* Callback endpoints: POST /api/cards/:id/run-complete, review-complete *)

RunCompleteEndpoint(c, code) ==
    /\ active' = [active EXCEPT ![c].impl = NoHandle]
    /\ runCompleteEffects(c, code, ServerCwd)
    /\ last' = Event("runComplete", c, "ok", 0, code)
    /\ UNCHANGED <<used, procs, files, up>>

ReviewCompleteEndpoint(c, code) ==
    /\ active' = [active EXCEPT ![c].review = NoHandle]
    /\ reviewCompleteEffects(c, code)
    /\ last' = Event("reviewComplete", c, "ok", 0, code)
    /\ UNCHANGED <<used, runs, timers, procs, files, up>>

----------------------------------------------------------------------------
(* The system *)

Request(c) ==
    \/ \E st \in CreateStatuses \cup {InvalidStatus}, in \in CreateInputs :
          CreateRequest(c, st, in)
    \/ \E st \in PatchStatuses \cup {InvalidStatus} : PatchStatus(c, st)
    \/ \E spawned \in BOOLEAN : StartRun(c, spawned)
    \/ \E spawned \in BOOLEAN : StartReview(c, spawned)
    \/ StopRun(c)
    \/ DeleteCard(c)

Callback(c) ==
    \/ \E spawned \in BOOLEAN : ReviewTimer(c, spawned)
    \/ \E p \in procs[c], code \in ExitCodes, fk \in BOOLEAN : RunExit(c, p, code, fk)
    \/ \E p \in procs[c], code \in ExitCodes, fk \in BOOLEAN : ReviewExit(c, p, code, fk)
    \/ \E p \in procs[c] : \E out \in (IF p.phase = "impl" THEN ImplOutputs ELSE ReviewOutputs) :
          AgentWrite(c, p, out)
    \/ \E p \in procs[c] : \E outcome \in {"completed", "error", "aborted"} :
          HttpSettle(c, p, outcome)

Endpoint(c) ==
    \/ \E code \in ExitCodes : RunCompleteEndpoint(c, code)
    \/ \E code \in ExitCodes : ReviewCompleteEndpoint(c, code)

\* No gateway is configured (OPENCLAW_CONFIG unset): queueWake returns at once.
Quiet == UNCHANGED <<wake, gateway>>

\* One lifetime after another of the server, its agents and its operator.
Next ==
    \/ \E c \in OneCard : up /\ Request(c) /\ Quiet
    \/ \E c \in OneCard : up /\ Callback(c) /\ Quiet
    \/ \E c \in OneCard : \E p \in procs[c] : ProcGone(c, p) /\ Quiet
    \/ Restart /\ Quiet

Spec == Init /\ [][Next]_vars

\* The key of the queueWake call of the handler that has just run, or NoKey:
\* a card created in Inbox, a PATCH from Review/Test to Done, a review that
\* ended with code 0 (passed or not).
StepWakeKey ==
    IF last'.res # "ok" THEN NoKey
    ELSE IF last'.op = "create" /\ cards'[last'.card].status = "Inbox"
         THEN WakeKey("inbox", last'.card)
    ELSE IF /\ last'.op = "patch" /\ cards[last'.card].status = "Review/Test"
            /\ cards'[last'.card].status = "Done"
         THEN WakeKey("done", last'.card)
    ELSE IF last'.op \in {"reviewExit", "reviewComplete"} /\ last'.code = 0
         THEN IF ReviewPassed(prettyStreamJson(ReviewLogText(last'.card)))
              THEN WakeKey("done", last'.card)
              ELSE WakeKey("review-issues", last'.card)
    ELSE NoKey

\* With a gateway configured.  The debounce map and the sends in flight are
\* in the server's memory and end with it.
Notify ==
    /\ wake' \in IF ~up' THEN {NoWakes}
                 ELSE IF StepWakeKey = NoKey THEN {wake}
                 ELSE {queueWake(wake, StepWakeKey, fresh) : fresh \in BOOLEAN}
    /\ UNCHANGED gateway

\* A notifier whose failed send moves the card to Stopped.
WakeOutcome_stopsCard(key, outcome) ==
    /\ up
    /\ wake[key] = "sending"
    /\ wake' = [wake EXCEPT ![key] = "quiet"]
    /\ last' = Event("wake", key.card, outcome, 0, 0)
    /\ cards' = IF outcome # "sent" /\ Exists(key.card)
                THEN SetStatus(cards, key.card, "Stopped") ELSE cards
    /\ UNCHANGED <<used, runs, cardLogs, active, timers, procs, files, up, gateway>>

\* A send in flight ends: the gateway answered, the socket failed or closed,
\* or the 8 s timer fired.  The promise's outcome is only logged.
WakeOutcome(key, outcome) ==
    /\ up
    /\ wake[key] = "sending"
    /\ wake' = [wake EXCEPT ![key] = "quiet"]
    /\ last' = Event("wake", key.card, outcome, 0, 0)
    /\ UNCHANGED <<cards, used, runs, cardLogs, active, timers, procs, files, up, gateway>>

\* One lifetime of a server that has a gateway configured.
\* The rows of card_logs this specification follows a card for.
MaxWakeLogs == 4

\* appendCardLog within that budget
WithinWake == \A c \in CardIds : cardLogs'[c] <= MaxWakeLogs

NextWake ==
    \/ \E c \in OneCard : up /\ Request(c) /\ WithinWake /\ Notify
    \/ \E c \in OneCard : up /\ Callback(c) /\ WithinWake /\ Notify
    \/ \E key \in WakeKeys, outcome \in WakeOutcomes : WakeOutcome(key, outcome)

SpecWake == Init /\ [][NextWake]_vars

----------------------------------------------------------------------------
(* The notifier on its own: queueWake, shouldSendWake on the clock, and    *)
(* one call of sendGatewayWake at a time with its socket, its timer and    *)
(* the events of the gateway.  The sweep of old entries needs more than    *)
(* 2000 keys and never runs here.                                          *)

ClockStep == 4000
MaxClock == 12000
MaxAttempts == 1
MaxMessages == 2
InboxDebounceMs == 8000
DoneDebounceMs == 15000
ReviewDebounceMs == 5000
WakeTimeoutMs == 8000

\* The queueWake calls of the server: the kind of their key, their debounceMs.
WakeCalls ==
    { <<"inbox", InboxDebounceMs>>, <<"done", DoneDebounceMs>>,
      <<"done", ReviewDebounceMs>>, <<"review-issues", ReviewDebounceMs>> }

\* A debounce that looks at the entries of all keys.
Debounced_anyKey(stamps, key, debounceMs, now) ==
    \E k \in WakeKeys : stamps[k] # 0 /\ now - stamps[k] < debounceMs

\* shouldSendWake: `last && now - last < debounceMs`
Debounced(stamps, key, debounceMs, now) ==
    stamps[key] # 0 /\ now - stamps[key] < debounceMs

\* new Promise(...): the socket is created and the timer is set.
\* sent: the requests put on the wire; heard: the messages handled so far.
NewAttempt(id, key, now) ==
    [id |-> id, key |-> key, settled |-> "pending", error |-> "none",
     socket |-> "connecting", errored |-> FALSE,
     timer |-> TRUE, deadline |-> now + WakeTimeoutMs,
     sent |-> <<>>, heard |-> <<>>]

\* ws.close(): a socket that is connecting aborts its handshake.
Closed(socket) ==
    CASE socket = "connecting" -> "aborting"
      [] socket = "open" -> "closing"
      [] OTHER -> socket

\* A finish without its test of `settled`.
finish_again(a, err) ==
    [a EXCEPT !.settled = IF err = "none" THEN "resolved" ELSE "rejected",
              !.error = err, !.timer = FALSE, !.socket = Closed(a.socket)]

\* finish(err)
finish(a, err) ==
    IF a.settled # "pending" THEN a
    ELSE [a EXCEPT !.settled = IF err = "none" THEN "resolved" ELSE "rejected",
                   !.error = err, !.timer = FALSE, !.socket = Closed(a.socket)]

\* send(payload): ws.send throws while the socket is connecting and puts
\* nothing on the wire once it is closing or closed.
send(a, req) ==
    CASE a.socket = "open" -> [a EXCEPT !.sent = Append(@, req)]
      [] a.socket = "connecting" -> finish(a, "send failed")
      [] OTHER -> a

\* ws.on("message"): the response to the connect request, the response to
\* the wake request, or anything else.
Messages == {"other", "connect-ok", "connect-failed", "wake-ok", "wake-failed"}

onMessage(a, m) ==
    CASE m = "connect-failed" -> finish(a, "connect failed")
      [] m = "connect-ok" -> send(a, "wake")
      [] m = "wake-failed" -> finish(a, "wake failed")
      [] m = "wake-ok" -> finish(a, "none")
      [] OTHER -> a

\* The request a response answers: its id is a fresh UUID the gateway learns
\* from the request.
Answers(m) ==
    CASE m \in {"connect-ok", "connect-failed"} -> "connect"
      [] m \in {"wake-ok", "wake-failed"} -> "wake"
      [] OTHER -> "none"

InSeq(x, seq) == \E i \in 1..Len(seq) : seq[i] = x

GatewayStep(op, key, res) ==
    /\ up
    /\ last' = Event(op, key.card, res, 0, 0)
    /\ UNCHANGED <<cards, used, runs, cardLogs, active, timers, procs, files, up, wake>>

\* The attempt is over and its socket is closed: nothing refers to it.
Collectable(a) == a = NoAttempt \/ (a.settled # "pending" /\ a.socket = "closed")

\* queueWake(params) with a gateway configured.  An accepted wake starts
\* sendGatewayWake; the model follows it when it follows no other attempt.
QueueWakeCall(key, debounceMs) ==
    IF Debounced(gateway.wakeDebounce, key, debounceMs, gateway.now)
    THEN /\ UNCHANGED gateway
         /\ GatewayStep("queueWake", key, "suppressed")
    ELSE /\ gateway' =
              IF Collectable(gateway.attempt) /\ gateway.attempts < MaxAttempts
              THEN [gateway EXCEPT !.wakeDebounce[key] = gateway.now,
                                   !.attempts = @ + 1,
                                   !.attempt = NewAttempt(gateway.attempts + 1, key, gateway.now)]
              ELSE [gateway EXCEPT !.wakeDebounce[key] = gateway.now]
         /\ GatewayStep("queueWake", key, "accepted")

\* Time passes.
Tick ==
    /\ gateway.now + ClockStep <= MaxClock
    /\ gateway' = [gateway EXCEPT !.now = @ + ClockStep]
    /\ GatewayStep("tick", NoKey, "ok")

\* ws.on("open")
SocketOpen ==
    LET a == gateway.attempt
    IN /\ a # NoAttempt /\ a.socket = "connecting"
       /\ gateway' = [gateway EXCEPT !.attempt = send([a EXCEPT !.socket = "open"], "connect")]
       /\ GatewayStep("open", a.key, "ok")

\* ws.on("message"): messages arrive until the socket is closed.
SocketMessage(m) ==
    LET a == gateway.attempt
    IN /\ a # NoAttempt /\ a.socket \in {"open", "closing"}
       /\ Len(a.heard) < MaxMessages
       /\ Answers(m) # "none" => InSeq(Answers(m), a.sent)
       /\ gateway' = [gateway EXCEPT !.attempt = [onMessage(a, m) EXCEPT !.heard = Append(@, m)]]
       /\ GatewayStep("message", a.key, "ok")

\* ws.on("error")
SocketError ==
    LET a == gateway.attempt
    IN /\ a # NoAttempt /\ a.socket # "closed" /\ ~a.errored
       /\ gateway' = [gateway EXCEPT !.attempt = [finish(a, "socket error") EXCEPT !.errored = TRUE]]
       /\ GatewayStep("error", a.key, "ok")

\* ws.on("close")
SocketClose ==
    LET a == gateway.attempt
    IN /\ a # NoAttempt /\ a.socket # "closed"
       /\ gateway' = [gateway EXCEPT !.attempt = [finish(a, "socket closed") EXCEPT !.socket = "closed"]]
       /\ GatewayStep("close", a.key, "ok")

\* The 8 s timer fires.
WakeTimeout ==
    LET a == gateway.attempt
    IN /\ a # NoAttempt /\ a.timer /\ gateway.now >= a.deadline
       /\ gateway' = [gateway EXCEPT !.attempt = finish(a, "timeout")]
       /\ GatewayStep("timeout", a.key, "ok")

NextGateway ==
    \/ \E call \in WakeCalls, c \in OneCard : QueueWakeCall(WakeKey(call[1], c), call[2])
    \/ Tick
    \/ SocketOpen
    \/ \E m \in Messages : SocketMessage(m)
    \/ SocketError
    \/ SocketClose
    \/ WakeTimeout

SpecGateway == Init /\ [][NextGateway]_vars

\* The server opens a database file that already holds a card.  The assignee
\* column is unconstrained TEXT: the row may name an agent kind this build
\* does not know, which no request to this build's API can store.
StoredAssignees == {NULL, "other"}

InitStored ==
    /\ \E a \in StoredAssignees :
          cards = [c \in CardIds |->
                      IF c \in OneCard
                      THEN [status |-> "Inbox", assignee |-> a,
                            project_path |-> "/repo", description |-> <<"text">>]
                      ELSE NoCard]
    /\ used = OneCard
    /\ runs = [c \in CardIds |-> <<>>]
    /\ cardLogs = [c \in CardIds |-> 0]
    /\ active = [c \in CardIds |-> NoHandles]
    /\ timers = [c \in CardIds |-> <<>>]
    /\ procs = [c \in CardIds |-> {}]
    /\ files = [c \in CardIds |-> NoFiles]
    /\ up = TRUE
    /\ wake = NoWakes
    /\ gateway = NoGateway
    /\ last = Event("init", "none", "ok", 0, 0)

SpecStored == InitStored /\ [][Next]_vars

\* The same with the callback endpoints open to external tools.
NextExt ==
    \/ Next
    \/ \E c \in OneCard : up /\ Endpoint(c) /\ Quiet

SpecExt == Init /\ [][NextExt]_vars

\* One lifetime of a server that opens a database with two cards in Inbox.
\* The event-log rows of the whole board are capped as well, and no row is
\* added once a card has been deleted.
MaxBoardLogs == 5

InitBoard ==
    /\ cards = [c \in CardIds |->
                    [status |-> "Inbox", assignee |-> NULL,
                     project_path |-> "/repo", description |-> <<"text">>]]
    /\ used = CardIds
    /\ runs = [c \in CardIds |-> <<>>]
    /\ cardLogs = [c \in CardIds |-> 0]
    /\ active = [c \in CardIds |-> NoHandles]
    /\ timers = [c \in CardIds |-> <<>>]
    /\ procs = [c \in CardIds |-> {}]
    /\ files = [c \in CardIds |-> NoFiles]
    /\ up = TRUE
    /\ wake = NoWakes
    /\ gateway = NoGateway
    /\ last = Event("init", "none", "ok", 0, 0)

RECURSIVE BoardLogs(_, _)
BoardLogs(cl, cs) ==
    IF cs = {} THEN 0
    ELSE LET c == CHOOSE x \in cs : TRUE IN cl[c] + BoardLogs(cl, cs \ {c})

WithinBoard ==
    (\E c \in CardIds : cardLogs'[c] > cardLogs[c])
        => /\ \A c \in CardIds : Exists(c)
           /\ BoardLogs(cardLogs', CardIds) <= MaxBoardLogs

\* The operator moves cards to Review/Test only and creates none.
BoardRequest(c) ==
    \/ PatchCard(c, "status", "Review/Test")
    \/ \E spawned \in BOOLEAN : StartRun(c, spawned)
    \/ \E spawned \in BOOLEAN : StartReview(c, spawned)
    \/ StopRun(c)
    \/ DeleteCard(c)

\* The agents' output is left out: no review passes.
BoardCallback(c) ==
    \/ \E spawned \in BOOLEAN : ReviewTimer(c, spawned)
    \/ \E p \in procs[c], code \in ExitCodes, fk \in BOOLEAN : RunExit(c, p, code, fk)
    \/ \E p \in procs[c], code \in ExitCodes, fk \in BOOLEAN : ReviewExit(c, p, code, fk)

NextBoard ==
    \/ \E c \in CardIds : up /\ BoardRequest(c) /\ WithinBoard /\ Quiet
    \/ \E c \in CardIds : up /\ BoardCallback(c) /\ WithinBoard /\ Quiet
    \/ \E status \in CardStatus : up /\ Purge(status) /\ Quiet

SpecBoard == InitBoard /\ [][NextBoard]_vars

----------------------------------------------------------------------------
(* The log viewer: one stored card whose agents write their log line by    *)
(* line while GET /api/cards/:id/terminal reads it.                        *)

MaxLogLines == 3
TailMin == 20
TailMax == 4000

\* The lines an agent writes in this model.
LogLines ==
    { TextLine(<<>>), TextLine(<<"x">>), TextLine(<<SP, "x">>),
      PartialLine(<<"x">>), IgnoredLine, InitLine,
      DeltaLine(<<"a">>), DeltaLine(<<"a", NL, NL, "b">>) }

\* child.stdout.pipe(logStream): one more line at the end of the log
AppendLine(text, line) == Append(text, line)

AgentAppend(c, p, line) ==
    /\ p \in procs[c] /\ p.watched /\ p.alive
    /\ files[c][p.phase].exists /\ files[c][p.phase].owner = p.id
    /\ Len(files[c][p.phase].text) < MaxLogLines
    /\ files' = [files EXCEPT ![c][p.phase].text = AppendLine(@, line)]
    /\ last' = Event("write", c, "ok", p.id, 0)
    /\ UNCHANGED <<cards, used, runs, cardLogs, active, timers, procs, up>>

\* parts.slice(Math.max(0, parts.length - lines))
LastLines(parts, lines) ==
    SubSeq(parts, Max(0, Len(parts) - lines) + 1, Len(parts))

\* The response of the viewer.
View(c, exists, lines, pretty, text) ==
    [op |-> "terminal", card |-> c, res |-> IF exists THEN "ok" ELSE "missing",
     proc |-> 0, code |-> lines, pretty |-> pretty, text |-> text]

\* GET /api/cards/:id/terminal?lines=..&pretty=..
Terminal(c, query, pretty) ==
    LET lines == Min(Max(query, TailMin), TailMax)
        f == files[c].impl
        tail == LastLines(f.text, lines)
    IN /\ last' = IF ~f.exists THEN View(c, FALSE, lines, pretty, <<>>)
                  ELSE View(c, TRUE, lines, pretty,
                            IF pretty THEN prettyStreamJson(tail) ELSE JoinLines(tail))
       /\ UNCHANGED <<cards, used, runs, cardLogs, active, timers, procs, files, up>>

NextNorm ==
    \/ \E c \in OneCard : up /\ StartRun(c, TRUE) /\ Quiet
    \/ \E c \in OneCard : \E p \in procs[c] : \E line \in LogLines :
          up /\ AgentAppend(c, p, line) /\ Quiet
    \/ \E c \in OneCard : \E query \in {1, 200} : \E pretty \in BOOLEAN :
          up /\ Terminal(c, query, pretty) /\ Quiet

SpecNorm == InitStored /\ [][NextNorm]_vars

----------------------------------------------------------------------------
(* Notions the claims use *)

\* The processes of a card the server watches and has not signalled.
LiveProcs(c, phase) == {p \in procs[c] : p.phase = phase /\ p.alive /\ p.watched}

\* The processes behind the registry handles of a card.
Registered(c) ==
    {p \in procs[c] : p.id \in {active[c].impl.id, active[c].review.id}}

RunningRuns(c) == {i \in 1..Len(runs[c]) : runs[c][i].status = "running"}

----------------------------------------------------------------------------
(* C1: for every card, at most one live implementation process exists at   *)
(* any instant: a start on a card that already has a live implementation   *)
(* handle spawns no second process.                                        *)
(* The run handler has no such guard: the statement is violated.           *)
C1_OneLiveImplementation ==
    \A c \in CardIds : Cardinality(LiveProcs(c, "impl")) <= 1

(* C2: once stop has moved a card to Stopped, the exit callback of the     *)
(* stopped implementation process, whatever its exit code, leaves the      *)
(* status at Stopped and schedules no review.                              *)
(* handleRunComplete does not look at the status: violated for code 0.     *)
C2_LateExitKeepsStopped ==
    [][\A c \in CardIds : \A p \in procs[c] : \A code \in ExitCodes :
          (/\ Exists(c) /\ cards[c].status = "Stopped"
           /\ ~p.alive
           /\ RunExit(c, p, code, FALSE))
          => (cards'[c].status = "Stopped" /\ timers'[c] = timers[c])]_vars

(* C3: in every reachable state each card has at most one Run with status  *)
(* running.  Violated: a second start (or review) inserts a second one.    *)
C3_OneRunningRun ==
    \A c \in CardIds : Cardinality(RunningRuns(c)) <= 1

(* C4: when an implementation process exits with code 0, its callback sets *)
(* the card to Review/Test, marks the Run of that process stopped and      *)
(* schedules the review; and when the timer fires on a card still in       *)
(* Review/Test, a review Run with the fixed reviewer kind is created.      *)
(* The callback marks the card's most recent Run, which need not be the    *)
(* Run of the process that exited: violated.                               *)
C4_ExitZeroHandsOver ==
    [][\A c \in CardIds :
         /\ \A p \in procs[c] :
              (Exists(c) /\ RunExit(c, p, 0, FALSE))
              => /\ cards'[c].status = "Review/Test"
                 /\ runs'[c][p.id].status = "stopped"
                 /\ timers'[c] = Append(timers[c], p.cwd)
         /\ \A spawned \in BOOLEAN :
              (Exists(c) /\ cards[c].status = "Review/Test" /\ ReviewTimer(c, spawned))
              => /\ Len(runs'[c]) = Len(runs[c]) + 1
                 /\ runs'[c][Len(runs'[c])].agent = ReviewAgent
                 /\ runs'[c][Len(runs'[c])].status = "running"]_vars

(* C5: on a review exit with code 0 the card ends in Done if the           *)
(* normalized review log contains the sentinel REVIEW_PASSED as a          *)
(* substring (also when the log is exactly the sentinel line) or the       *)
(* affirmative phrase, case-insensitively; if it contains neither, the     *)
(* card's status is what it was.                                           *)
C5_Normalized(c) == prettyStreamJson(IF files[c].review.exists THEN files[c].review.text ELSE <<>>)

C5_Affirmative(t) ==
    \/ \E i \in 1..Len(t) : i < Len(t) /\ t[i] = "REVIEW_" /\ t[i + 1] = "PASSED"
    \/ \E i \in 1..Len(t) : i + 2 <= Len(t) /\ t[i] \in {"looks", "Looks"}
                            /\ t[i + 1] = SP /\ t[i + 2] = "good"

C6_NoPath(c) ==
    /\ Exists(c)
    /\ cards[c].project_path \in {NULL, ""}
    /\ \A i \in 1..Len(cards[c].description) :
           cards[c].description[i] \in PathHeadings
           => (i < Len(cards[c].description) /\ IsHeading(cards[c].description[i + 1]))

C6_StartWithoutPathRejected ==
    [][\A c \in CardIds : \A spawned \in BOOLEAN :
          (C6_NoPath(c) /\ StartRun(c, spawned))
          => /\ last'.res = "missing_project_path"
             /\ UNCHANGED <<cards, runs, active, procs, cardLogs, timers, files>>]_vars

\* Reached: a start was rejected for the missing path on an existing card.
C6_Witness ==
    \E c \in CardIds :
        /\ last = Event("start", c, "missing_project_path", 0, 0)
        /\ C6_NoPath(c)
        /\ runs[c] = <<>> /\ procs[c] = {} /\ active[c] = NoHandles

(* C7: after stop on a card with a live handle, neither registry key of    *)
(* the card is present, the card's most recent Run is stopped and the      *)
(* card's status is Stopped.                                               *)
C7_HasLiveHandle(c) == \E p \in Registered(c) : p.alive

C7_StopClearsAndMarks ==
    [][\A c \in CardIds :
          (Exists(c) /\ C7_HasLiveHandle(c) /\ StopRun(c))
          => /\ last'.res = "ok"
             /\ active'[c].impl = NoHandle /\ active'[c].review = NoHandle
             /\ Len(runs'[c]) > 0 /\ runs'[c][Len(runs'[c])].status = "stopped"
             /\ cards'[c].status = "Stopped"]_vars

\* Reached: stop has signalled a process that is still to be reaped.
C7_Witness ==
    \E c \in CardIds :
        /\ last.op = "stop" /\ last.card = c /\ last.res = "ok"
        /\ cards[c].status = "Stopped" /\ active[c] = NoHandles
        /\ \E p \in procs[c] : p.watched /\ ~p.alive

(* C8: delete on a card, in any status and also while it has running      *)
(* implementation and/or review processes, terminates those processes and  *)
(* leaves no registry entry, no Run row, no event-log row, no log file and *)
(* no card row for the card.                                               *)
(* deleteCardAndArtifacts signals the two registered handles and the pid   *)
(* of the most recent Run only: a process whose handle was overwritten by  *)
(* a later start, or an older orphan after a restart, stays alive.         *)
C8_DeleteLeavesNothing ==
    [][\A c \in CardIds :
          (Exists(c) /\ DeleteCard(c))
          => /\ \A q \in procs'[c] : ~q.alive
             /\ active'[c] = NoHandles
             /\ runs'[c] = <<>>
             /\ cardLogs'[c] = 0
             /\ files'[c] = NoFiles
             /\ cards'[c] = NoCard]_vars

(* C9: a card never has two live review processes at the same time.        *)
(* Neither the review handler nor startReviewTest looks at the registry:   *)
(* violated by a second review request, or by the timer after a manual one.*)
C9_OneLiveReview ==
    \A c \in CardIds : Cardinality(LiveProcs(c, "review")) <= 1

(* C10: the exit callback of an implementation or review process marks the *)
(* Run created for that process stopped.                                   *)
(* handleReviewComplete updates no Run, and handleRunComplete marks the    *)
(* most recent one: violated.                                              *)
C10_ExitMarksOwnRun ==
    [][\A c \in CardIds : \A p \in procs[c] : \A code \in ExitCodes :
          (Exists(c) /\ (RunExit(c, p, code, FALSE) \/ ReviewExit(c, p, code, FALSE)))
          => runs'[c][p.id].status = "stopped"]_vars

(* C11: when start succeeds, for CLI and HTTP agents alike, exactly one    *)
(* new Run with status running exists, the card is In Progress and the     *)
(* registry holds the new handle under the card's key; and as long as an   *)
(* implementation process the server started has neither been signalled    *)
(* nor had its exit callback, the card's key holds a handle for stop.      *)
(* The first half holds.  The second does not: the exit callback of an     *)
(* earlier process of the card deletes the key that by then holds the      *)
(* handle of a later one.                                                  *)
C11_StartRegistersHandle ==
    [][\A c \in CardIds :
          /\ (Exists(c) /\ StartRun(c, TRUE) /\ last'.res = "ok")
             => /\ Len(runs'[c]) = Len(runs[c]) + 1
                /\ SubSeq(runs'[c], 1, Len(runs[c])) = runs[c]
                /\ runs'[c][Len(runs'[c])].status = "running"
                /\ cards'[c].status = "In Progress"
                /\ active'[c].impl.id = Len(runs'[c])
                /\ active'[c].impl.pid # 0
          /\ (\E p \in procs'[c] : p.phase = "impl" /\ p.watched /\ p.alive)
             => active'[c].impl # NoHandle]_vars

(* C12: when an implementation run exits with a nonzero code, the Run of   *)
(* that process is marked stopped, the card's status is left as it was,    *)
(* no review is scheduled and nothing is launched again.                   *)
(* Status, timer and processes are as stated; the Run that is marked is    *)
(* the card's most recent one, which need not be the Run of the process.   *)
C12_FailedRunStopsOnly ==
    [][\A c \in CardIds : \A p \in procs[c] : \A code \in ExitCodes \ {0} :
          (Exists(c) /\ RunExit(c, p, code, FALSE))
          => /\ runs'[c][p.id].status = "stopped"
             /\ cards'[c] = cards[c]
             /\ timers'[c] = timers[c]
             /\ procs'[c] \subseteq procs[c]
             /\ Len(runs'[c]) = Len(runs[c])]_vars

(* C13: when a review run exits with a nonzero code the card is not        *)
(* changed (Review/Test stays Review/Test) whatever the review log holds;  *)
(* no Run, timer or log file changes, one event-log row is added.          *)
C13_FailedReviewKeepsStatus ==
    [][\A c \in CardIds : \A p \in procs[c] : \A code \in ExitCodes \ {0} :
          (Exists(c) /\ ReviewExit(c, p, code, FALSE))
          => /\ cards'[c] = cards[c]
             /\ runs'[c] = runs[c]
             /\ timers'[c] = timers[c]
             /\ files'[c].review = files[c].review
             /\ cardLogs'[c] = cardLogs[c] + 1]_vars

\* Reached: a review whose log holds the sentinel ended with code 1 and the
\* card is still in Review/Test.
C13_Witness ==
    \E c \in CardIds :
        /\ last.op = "reviewExit" /\ last.card = c /\ last.res = "ok" /\ last.code = 1
        /\ Exists(c) /\ cards[c].status = "Review/Test"
        /\ files[c].review.exists
        /\ ReviewPassed(prettyStreamJson(files[c].review.text))

(* C14: a review is started only for a card that is in Review/Test at that *)
(* moment: start-review on a card in any other status is rejected with an  *)
(* error, spawns no process, records no Run and leaves the card unchanged; *)
(* and whatever step records a review Run finds the card in Review/Test.   *)
C14_ReviewOnlyInReviewTest ==
    [][\A c \in CardIds :
          /\ \A spawned \in BOOLEAN :
               (Exists(c) /\ cards[c].status # "Review/Test" /\ StartReview(c, spawned))
               => /\ last'.res = "card_not_in_review_test"
                  /\ UNCHANGED <<cards, runs, active, procs, cardLogs, timers, files>>
          /\ (/\ Len(runs'[c]) > Len(runs[c])
              /\ runs'[c][Len(runs'[c])].agent = ReviewAgent)
             => (Exists(c) /\ cards[c].status = "Review/Test")]_vars

\* Reached: a review request on a card that is In Progress and has a project
\* path was rejected for its status.
C14_Witness ==
    \E c \in CardIds :
        /\ last = Event("review", c, "card_not_in_review_test", 0, 0)
        /\ Exists(c) /\ cards[c].status = "In Progress"
        /\ ~missingProjectPath(cards[c])
        /\ \E p \in procs[c] : p.phase = "impl" /\ p.alive

(* C15: when launching the agent fails (the executable of a CLI agent is   *)
(* missing, the request of an HTTP agent fails), the server keeps running, *)
(* the registry entry of the launch is removed, the failure does not       *)
(* change the card's status, and the exit callback runs so that the Run    *)
(* recorded for the launch is stopped.                                     *)
(* True of a CLI implementation launch.  A failed review launch runs       *)
(* handleReviewComplete, which updates no Run: its Run stays running.      *)
C15_Stopped(rs, k) == k \in 1..Len(rs) /\ rs[k].status = "stopped"

C15_FailedLaunchEndsRun ==
    [][\A c \in CardIds :
          /\ (Exists(c) /\ StartRun(c, FALSE))
             => /\ up'
                /\ active'[c].impl = NoHandle
                /\ cards'[c].status = "In Progress"
                /\ C15_Stopped(runs'[c], Len(runs[c]) + 1)
          /\ (Exists(c) /\ (StartReview(c, FALSE) \/ ReviewTimer(c, FALSE)))
             => /\ up'
                /\ active'[c].review = NoHandle
                /\ cards'[c].status = cards[c].status
                /\ C15_Stopped(runs'[c], Len(runs[c]) + 1)
          /\ \A p \in procs[c] :
               (Exists(c) /\ p.http /\ RunExit(c, p, 1, FALSE))
               => /\ up'
                  /\ active'[c].impl = NoHandle
                  /\ cards'[c].status = cards[c].status
                  /\ C15_Stopped(runs'[c], p.id)]_vars

(* C16: for one card the events are ordered start, implementation exit     *)
(* callback, review start, review exit callback: no review starts while an *)
(* implementation process of the card is live, and a review exit callback  *)
(* is handled only for a review that was started.                          *)
(* The second half holds.  The first does not: startReviewTest looks at    *)
(* the card's status only, never at the registry.                          *)
C16_StrictOrder ==
    [][\A c \in CardIds :
          /\ (\E q \in procs'[c] \ procs[c] : q.phase = "review")
             => LiveProcs(c, "impl") = {}
          /\ \A p \in procs[c] : \A code \in ExitCodes :
               ReviewExit(c, p, code, FALSE)
               => (p.id \in 1..Len(runs[c]) => runs[c][p.id].agent = ReviewAgent)]_vars

(* C17: the working directory start uses is the card's project_path        *)
(* whenever that field is set, otherwise the path of the Project Path      *)
(* section of the description; start never launches the agent in the       *)
(* server's own working directory.                                         *)
C17_SectionPath(d) ==
    IF \E i \in 1..Len(d) : d[i] = "/desc" THEN "/desc" ELSE NULL

C17_WorkingDirectory ==
    [][\A c \in CardIds : \A spawned \in BOOLEAN :
          (Exists(c) /\ StartRun(c, spawned) /\ last'.res = "ok")
          => LET run == runs'[c][Len(runs'[c])]
                 field == cards[c].project_path
             IN /\ Len(runs'[c]) = Len(runs[c]) + 1
                /\ field \notin {NULL, ""} => run.cwd = field
                /\ field \in {NULL, ""} => run.cwd = C17_SectionPath(cards[c].description)
                /\ run.cwd \notin {NULL, "", ServerCwd}
                /\ \A q \in procs'[c] \ procs[c] : q.cwd = run.cwd]_vars

\* Reached: a card without project_path whose description has the section
\* was started, and its process runs in the section's path.
C17_Witness ==
    \E c \in CardIds :
        /\ last.op = "start" /\ last.card = c /\ last.res = "ok"
        /\ Exists(c) /\ cards[c].project_path \in {NULL, ""}
        /\ runs[c][Len(runs[c])].cwd = "/desc"
        /\ \E p \in procs[c] : p.id = Len(runs[c]) /\ p.cwd = "/desc" /\ p.alive

(* C18: a start, stop, start-review or delete naming a card id that does   *)
(* not exist, and a start on a card whose assignee is not a supported      *)
(* agent kind, is rejected with an error, leaves all cards, Runs,          *)
(* event-log rows and registry entries unchanged and spawns no process.    *)
C18_Supported == {"claude", "codex", "gemini", "opencode", "copilot", "antigravity"}

C18_Untouched == UNCHANGED <<cards, runs, cardLogs, active, procs, timers, files>>

C18_RejectedUntouched ==
    [][\A c \in CardIds :
          /\ (~Exists(c) /\ (\/ StartRun(c, TRUE) \/ StopRun(c)
                             \/ StartReview(c, TRUE) \/ DeleteCard(c)))
             => (last'.res = "not_found" /\ C18_Untouched)
          /\ (/\ Exists(c)
              /\ cards[c].assignee \notin C18_Supported \cup {NULL, ""}
              /\ \E spawned \in BOOLEAN : StartRun(c, spawned))
             => (last'.res = "unsupported_agent" /\ C18_Untouched)]_vars

\* Reached: a start was rejected for the agent kind on a card that has a
\* project path and a review in progress.
C18_Witness ==
    \E c \in CardIds :
        /\ last = Event("start", c, "unsupported_agent", 0, 0)
        /\ Exists(c) /\ cards[c].assignee = "other"
        /\ ~missingProjectPath(cards[c])
        /\ \E p \in procs[c] : p.phase = "review" /\ p.alive

----------------------------------------------------------------------------
(* C19: with a gateway configured, the card, Run and registry state that   *)
(* a sequence of operations and callbacks produces is the same whether     *)
(* each wake notification succeeds, fails, times out or is suppressed by   *)
(* debouncing, and no step waits for a notification's outcome: every step  *)
(* that changes that state is a step of a handler exactly as it runs with  *)
(* no gateway, whatever the notifier's state, and the end of a send,       *)
(* whatever its outcome, changes none of it.                               *)
C19_State == <<cards, used, runs, cardLogs, active, timers, procs, files, up>>

C19_HandlerStep == \E c \in OneCard : up /\ (Callback(c) \/ Request(c))

C19_SendEnds == \E key \in WakeKeys : wake[key] = "sending" /\ wake'[key] = "quiet"

C19_WakeNeverAffectsState ==
    [][ /\ C19_SendEnds => UNCHANGED C19_State
        /\ UNCHANGED C19_State \/ C19_HandlerStep ]_vars

\* A send for a passed review has timed out; the card is Done all the same.
C19_Witness ==
    \E c \in CardIds :
        /\ last = Event("wake", c, "timeout", 0, 0)
        /\ wake[WakeKey("done", c)] = "quiet"
        /\ Exists(c) /\ cards[c].status = "Done"
        /\ runs[c] # <<>>

----------------------------------------------------------------------------
(* C20: the status of a Run only ever changes from running to stopped,     *)
(* never back; no other attribute of an existing Run (agent kind, pid, log *)
(* path, working directory) is modified after insertion; and the Runs of a *)
(* card disappear only in the step that deletes the card.                  *)
C20_Attributes(run) == [run EXCEPT !.status = "any"]

C20_RunsAppendOnly ==
    [][\A c \in CardIds :
          IF Len(runs'[c]) < Len(runs[c])
          THEN Exists(c) /\ cards'[c] = NoCard /\ runs'[c] = <<>>
          ELSE \A i \in 1..Len(runs[c]) :
                  /\ C20_Attributes(runs'[c][i]) = C20_Attributes(runs[c][i])
                  /\ runs'[c][i].status \in {"running", "stopped"}
                  /\ runs[c][i].status = "stopped" => runs'[c][i].status = "stopped"]_vars

\* An exit callback has stopped the second Run of a card whose first Run
\* was stopped before.
C20_Witness ==
    \E c \in CardIds :
        /\ last.op = "runExit" /\ last.res = "ok"
        /\ Len(runs[c]) = 2
        /\ runs[c][1].status = "stopped" /\ runs[c][2].status = "stopped"
        /\ runs[c][1].pid # runs[c][2].pid

----------------------------------------------------------------------------
(* C21: cards are independent: a start, stop, start-review, delete or exit *)
(* callback for card A leaves the status, the Run records and the registry *)
(* entries of every other card B unchanged.                                *)
(* The exit callback of a CLI process whose card was deleted throws on the *)
(* foreign key of card_logs; the exception is uncaught, the server ends    *)
(* and the registry entries of every card are lost: violated.              *)
C21_Operation(a) ==
    \/ \E spawned \in BOOLEAN : StartRun(a, spawned)
    \/ StopRun(a)
    \/ \E spawned \in BOOLEAN : StartReview(a, spawned)
    \/ DeleteCard(a)
    \/ \E p \in procs[a], code \in ExitCodes, fk \in BOOLEAN : RunExit(a, p, code, fk)
    \/ \E p \in procs[a], code \in ExitCodes, fk \in BOOLEAN : ReviewExit(a, p, code, fk)

C21_SameCard(b) ==
    /\ cards'[b] = cards[b]
    /\ runs'[b] = runs[b]
    /\ active'[b] = active[b]

C21_CardsIndependent ==
    [][\A a \in CardIds : \A b \in CardIds \ {a} :
          C21_Operation(a) => C21_SameCard(b)]_vars

----------------------------------------------------------------------------
(* C22: in every reachable state, under any sequence of create, edit,      *)
(* start, stop, review, callbacks and delete, the status of each existing  *)
(* card is one of Inbox, Planned, In Progress, Review/Test, Done, Stopped. *)
C22_StatusInClosedSet ==
    \A c \in CardIds : Exists(c) => cards[c].status \in CardStatus

\* An edit that carried a status outside the set has been turned down on a
\* card that went through a run.
C22_Witness ==
    \E c \in CardIds :
        /\ last = Event("patch", c, "invalid_body", 0, 0)
        /\ Exists(c) /\ cards[c].status = "Review/Test"
        /\ HasRun(c)

----------------------------------------------------------------------------
(* C23: stop prefers the in-memory registry handle as its termination      *)
(* target: with a handle in the registry, the pid it reports and signals   *)
(* is the handle's and the handle's process is terminated.  With no        *)
(* registry entry (for example after a restart) and a process id recorded  *)
(* in the most recent Run, stop targets that recorded id: every process    *)
(* of the card with that id is terminated, that Run is marked stopped and  *)
(* the card moves to Stopped.                                              *)
C23_Terminated(c, pid) == \A p \in procs'[c] : p.pid = pid => ~p.alive

C23_StopTarget ==
    [][\A c \in CardIds :
          (Exists(c) /\ StopRun(c))
          => /\ ActiveChild(c) # NoHandle
                => /\ last' = Event("stop", c, "ok", 0, ActiveChild(c).pid)
                   /\ C23_Terminated(c, ActiveChild(c).pid)
             /\ (ActiveChild(c) = NoHandle /\ HasRun(c) /\ runs[c][LatestRun(c)].pid > 0)
                => /\ last' = Event("stop", c, "ok", 0, runs[c][LatestRun(c)].pid)
                   /\ C23_Terminated(c, runs[c][LatestRun(c)].pid)
                   /\ runs'[c][LatestRun(c)].status = "stopped"
                   /\ Len(runs'[c]) = Len(runs[c])
                   /\ cards'[c].status = "Stopped"]_vars

\* With no registry entry left, stop has gone by the pid recorded in the
\* latest Run; no process with that pid remains.
C23_Witness ==
    \E c \in CardIds :
        /\ last.op = "stop" /\ last.res = "ok" /\ last.card = c /\ last.code > 0
        /\ procs[c] = {}
        /\ Exists(c) /\ cards[c].status = "Stopped"
        /\ runs[c][LatestRun(c)].status = "stopped"
        /\ runs[c][LatestRun(c)].pid = last.code

----------------------------------------------------------------------------
(* The log the viewer last answered from, while its answer stands. *)

Viewed == last.op = "terminal" /\ last.res = "ok"
ViewedLog == files[last.card].impl.text
ViewedTail == LastLines(ViewedLog, last.code)

\* No line of the log is a JSON record at all / none pushes a chunk or a
\* metadata line.
NoJson(raw) == \A i \in 1..Len(raw) : raw[i].k \in {"text", "partial"}
NothingPushed(raw) == \A i \in 1..Len(raw) : raw[i].k \notin {"delta", "init"}

\* C24: for any raw log text in which no structured record is recognized, the
\* Output Normalizer returns the input text verbatim, character for character.
C24_FallbackVerbatim ==
    (Viewed /\ last.pretty /\ NoJson(ViewedTail))
        => last.text = JoinLines(ViewedTail)

\* C25: the Output Normalizer is idempotent on plain text: for every text
\* with no recognized JSON record, normalizing the normalizer's output for
\* that text gives that same output again.
C25_IdempotentOnPlainText ==
    (Viewed /\ last.pretty /\ NothingPushed(ViewedTail))
        => prettyStreamJson(ParseText(last.text)) = last.text

\* A plain-text log of several lines whose output is not the log itself.
C25_Witness ==
    /\ Viewed /\ last.pretty /\ NothingPushed(ViewedTail)
    /\ Len(ViewedTail) > 1
    /\ last.text # <<>> /\ last.text # JoinLines(ViewedTail)

\* The text stitched from the lines has a blank line between two paragraphs.
ParagraphBoundary(raw) ==
    \E i \in 2..(Len(Stitched(raw)) - 2) :
        /\ Stitched(raw)[i] = NL /\ Stitched(raw)[i + 1] = NL
        /\ Stitched(raw)[i - 1] # NL /\ Stitched(raw)[i + 2] # NL

\* C26: for every log and every N such that the last N lines of the log
\* include at least one complete paragraph boundary, the Output Normalizer's
\* output on only the last N lines is identical to its output on the full log.
C26_TailSameAsFull ==
    (Viewed /\ last.pretty /\ ViewedTail = ViewedLog)
        => \A n \in 1..Len(ViewedLog) :
              ParagraphBoundary(LastLines(ViewedLog, n))
                  => prettyStreamJson(LastLines(ViewedLog, n)) = last.text

\* C27: a truncated trailing JSON line is simply dropped: for every log L,
\* appending an unparseable partial JSON line at the end of L does not change
\* the Output Normalizer's output.  (Stated for the logs that are not empty.)
C27_PartialTailDropped ==
    [][\A c \in OneCard : \A p \in procs[c] : \A line \in LogLines :
          (line.k = "partial" /\ files[c][p.phase].text # <<>> /\ AgentAppend(c, p, line))
              => prettyStreamJson(files'[c][p.phase].text)
                     = prettyStreamJson(files[c][p.phase].text)]_vars

\* The cards with a status.
CardsIn(status) == {c \in CardIds : Exists(c) /\ cards[c].status = status}

\* C28: purge(status) deletes exactly the cards whose status equals the given
\* status at the time of the call, together with their Runs, event-log
\* records and registry handles, and leaves every card in any other status,
\* with its Runs and registry entries, unchanged; the reported count equals
\* the number of cards deleted.
C28_PurgeExact ==
    [][\A status \in CardStatus :
          Purge(status)
              => /\ \A c \in CardsIn(status) :
                       /\ cards'[c] = NoCard /\ runs'[c] = <<>>
                       /\ cardLogs'[c] = 0 /\ active'[c] = NoHandles
                 /\ \A c \in CardIds \ CardsIn(status) :
                       /\ cards'[c] = cards[c] /\ runs'[c] = runs[c]
                       /\ cardLogs'[c] = cardLogs[c] /\ active'[c] = active[c]
                 /\ last'.code = Cardinality(CardsIn(status))]_vars

\* A purge deleted one card and left a card with a live registry entry.
C28_Witness ==
    /\ last.op = "purge" /\ last.code = 1
    /\ \E c \in CardIds : ~Exists(c)
    /\ \E c \in CardIds : Exists(c) /\ active[c] # NoHandles /\ runs[c] # <<>>

\* C29: an exit callback affects only the run whose process exited: when a
\* stopped process A of a card exits late, after a new run B was started for
\* the same card, A's callback does not remove B's registry entry and does
\* not mark B's Run stopped.
C29_LateExitSparesNewRun ==
    [][\A c \in CardIds : \A p \in procs[c] : \A code \in ExitCodes :
          (/\ Exists(c) /\ ~p.alive
           /\ active[c].impl # NoHandle /\ active[c].impl.id # p.id
           /\ runs[c] # <<>>
           /\ runs[c][Len(runs[c])].proc = active[c].impl.id
           /\ runs[c][Len(runs[c])].status = "running"
           /\ RunExit(c, p, code, FALSE))
              => /\ active'[c].impl = active[c].impl
                 /\ runs'[c][Len(runs[c])].status = "running"]_vars

\* C30: after a successful stop, no process of the card is still live: when
\* the card has both a live implementation handle and a live review handle,
\* stop terminates both, so that no live process is left running with its
\* registry entry removed.
C30_StopTerminatesBoth ==
    [][\A c \in CardIds :
          (/\ Exists(c)
           /\ active[c].impl # NoHandle /\ active[c].review # NoHandle
           /\ \A p \in Registered(c) : p.alive
           /\ StopRun(c))
              => \A p \in procs'[c] : p.watched => ~p.alive]_vars

\* C31: stop moves a card to Stopped only if the card has a live process at
\* that moment: on a card whose runs have all ended (for instance a card in
\* Done or Review/Test whose finished Run still has a recorded pid), stop does
\* not change the card's status and sends no termination signal.
\* (Stated for the cards none of whose processes is left, exited or not.)
C31_StopNeedsLiveProcess ==
    [][\A c \in CardIds :
          (/\ Exists(c)
           /\ procs[c] = {}
           /\ StopRun(c))
              => /\ cards'[c].status = cards[c].status
                 /\ last'.res # "ok"]_vars

\* C32: the core sets a card's status to Review/Test only when the card is
\* In Progress with a running implementation Run: an implementation-completion
\* event with exit code 0 for a card in any other status, such as Inbox,
\* Planned or Done, does not change its status and schedules no review.
C32_HandOverOnlyFromInProgress ==
    [][\A c \in CardIds : \A p \in procs[c] :
          (/\ Exists(c) /\ cards[c].status # "In Progress"
           /\ RunExit(c, p, 0, FALSE))
              => /\ cards'[c].status = cards[c].status
                 /\ timers'[c] = timers[c]]_vars

\* C33: review completion moves a card to Done only if the card is in
\* Review/Test at that moment: a review exit with code 0 and a passing log,
\* arriving for a card that has meanwhile been stopped, restarted or edited to
\* another status, does not set it to Done.
C33_DoneOnlyFromReview ==
    [][\A c \in CardIds : \A p \in procs[c] :
          (/\ Exists(c) /\ cards[c].status \notin {"Review/Test", "Done"}
           /\ ReviewPassed(prettyStreamJson(ReviewLogText(c)))
           /\ ReviewExit(c, p, 0, FALSE))
              => cards'[c].status # "Done"]_vars

\* C34: when the post-success delay elapses, the automatic review is started
\* only if the card still exists and is still in Review/Test: if the card was
\* stopped, deleted, restarted or edited out of Review/Test during the delay,
\* no review process is spawned and no review Run is recorded.
C34_TimerLooksAtStatus ==
    [][\A c \in CardIds : \A spawned \in BOOLEAN :
          (/\ ~Exists(c) \/ cards[c].status # "Review/Test"
           /\ ReviewTimer(c, spawned))
              => /\ procs'[c] = procs[c] /\ runs'[c] = runs[c]
                 /\ active'[c] = active[c] /\ cardLogs'[c] = cardLogs[c]
                 /\ files'[c] = files[c] /\ cards'[c] = cards[c]]_vars

\* The timer fired for a card that had been stopped during the delay.
C34_Witness ==
    /\ last.op = "timer" /\ last.res = "skipped"
    /\ \E c \in CardIds : last.card = c /\ Exists(c) /\ cards[c].status = "Stopped"

\* C35: after delete(card), nothing for that card is ever created again: late
\* exit callbacks of its terminated processes and a pending auto-review timer
\* create no card row, no Run row, no event-log row and no registry entry for
\* that card id, and spawn no process.
C35_NothingAfterDelete ==
    [][\A c \in CardIds :
          (c \in used /\ ~Exists(c))
              => /\ cards'[c] = NoCard
                 /\ runs'[c] = <<>>
                 /\ cardLogs'[c] <= cardLogs[c]
                 /\ active'[c] = NoHandles
                 /\ {p.id : p \in procs'[c]} \subseteq {p.id : p \in procs[c]}]_vars

\* C36: for every HTTP-backed agent launch the completion handler runs exactly
\* once, after the stream has ended, with exit code 0 if and only if the
\* stream completed without error or abort; a failed request or a cooperative
\* abort triggered by stop or delete yields a nonzero code.
C36_HttpCompletesOnce ==
    [][\A c \in CardIds : \A p \in procs[c] : \A code \in ExitCodes, fk \in BOOLEAN :
          (p.http /\ RunExit(c, p, code, fk))
              => /\ p.outcome # "pending"
                 /\ code = 0 <=> p.outcome = "completed"
                 /\ p.outcome \in {"error", "aborted"} => code # 0
                 /\ \A q \in procs'[c] : q.id # p.id]_vars

\* The completion handler ran with a nonzero code for a task that stop had
\* aborted in mid-stream.
C36_Witness ==
    /\ last.op = "runExit" /\ last.code = 1 /\ last.res = "ok"
    /\ \E c \in CardIds :
          /\ last.card = c /\ Exists(c) /\ cards[c].status = "Stopped"
          /\ AgentOf(cards[c]) \in HttpAgents
          /\ \A p \in procs[c] : p.id # last.proc
          /\ files[c].impl.exists
          /\ files[c].impl.text # <<>>
          /\ files[c].impl.text[Len(files[c].impl.text)] = CatchLine("aborted")

\* The attempt the notifier follows, before and after a step of it.
SameAttempt ==
    /\ gateway.attempt # NoAttempt
    /\ gateway'.attempt # NoAttempt
    /\ gateway'.attempt.id = gateway.attempt.id

Pending == gateway.attempt # NoAttempt /\ gateway.attempt.settled = "pending"

Before(x, y, seq) ==
    \E i, j \in 1..Len(seq) : i < j /\ seq[i] = x /\ seq[j] = y

\* C37: a wake attempt settles exactly once.  Once it is settled, no event
\* changes its result or puts a request on the wire; it is resolved only
\* when an accepted connect response and then an accepted wake response were
\* handled; the wake request goes on the wire only in the step that handles
\* an accepted connect response; and while it is pending, a rejected connect,
\* a rejected wake, a socket error, a socket close and the timeout each
\* reject it.
C37_WakeSettlesOnce ==
    [][/\ (SameAttempt /\ ~Pending) =>
              /\ gateway'.attempt.settled = gateway.attempt.settled
              /\ gateway'.attempt.error = gateway.attempt.error
              /\ gateway'.attempt.sent = gateway.attempt.sent
       /\ (gateway'.attempt # NoAttempt /\ gateway'.attempt.settled = "resolved") =>
              /\ Before("connect-ok", "wake-ok", gateway'.attempt.heard)
              /\ gateway'.attempt.sent[1] = "connect"
              /\ InSeq("wake", gateway'.attempt.sent)
       /\ (SameAttempt /\ Len(gateway'.attempt.sent) > Len(gateway.attempt.sent)
             /\ gateway'.attempt.sent[Len(gateway'.attempt.sent)] = "wake") =>
              /\ gateway'.attempt.heard = Append(gateway.attempt.heard, "connect-ok")
              /\ gateway.attempt.sent[1] = "connect"
       /\ (Pending /\ SocketMessage("connect-failed")) =>
              (gateway'.attempt.settled = "rejected" /\ gateway'.attempt.error = "connect failed")
       /\ (Pending /\ SocketMessage("wake-failed")) =>
              (gateway'.attempt.settled = "rejected" /\ gateway'.attempt.error = "wake failed")
       /\ (Pending /\ SocketError) =>
              (gateway'.attempt.settled = "rejected" /\ gateway'.attempt.error = "socket error")
       /\ (Pending /\ SocketClose) =>
              (gateway'.attempt.settled = "rejected" /\ gateway'.attempt.error = "socket closed")
       /\ (Pending /\ WakeTimeout) =>
              (gateway'.attempt.settled = "rejected" /\ gateway'.attempt.error = "timeout")
      ]_vars

\* An attempt resolved by the two responses, whose socket then reported an
\* error and closed.
C37_Witness ==
    /\ gateway.attempt # NoAttempt
    /\ gateway.attempt.settled = "resolved"
    /\ gateway.attempt.heard = <<"connect-ok", "wake-ok">>
    /\ gateway.attempt.errored
    /\ gateway.attempt.socket = "closed"

\* C38: wakes are debounced per key.  A wake requested for a key less than
\* its debounceMs after the last accepted wake for that key is suppressed and
\* changes nothing; any other wake is accepted, whatever the entries of the
\* other keys, and stamps its own key only; nothing else touches a stamp.
C38_DebouncedPerKey ==
    [][/\ \A call \in WakeCalls, c \in OneCard :
              LET key == WakeKey(call[1], c)
                  t == gateway.wakeDebounce[key]
              IN QueueWakeCall(key, call[2]) =>
                     IF t # 0 /\ gateway.now - t < call[2]
                     THEN last'.res = "suppressed" /\ gateway' = gateway
                     ELSE /\ last'.res = "accepted"
                          /\ gateway'.wakeDebounce[key] = gateway.now
                          /\ \A k \in WakeKeys \ {key} :
                                 gateway'.wakeDebounce[k] = gateway.wakeDebounce[k]
       /\ \A k \in WakeKeys :
              gateway'.wakeDebounce[k] # gateway.wakeDebounce[k] =>
                  /\ last'.op = "queueWake" /\ last'.res = "accepted"
                  /\ gateway'.wakeDebounce[k] = gateway.now
      ]_vars

\* A wake accepted for one key while another key is within every interval.
C38_Witness ==
    /\ last.op = "queueWake" /\ last.res = "accepted"
    /\ \E k, k2 \in WakeKeys :
           /\ k # k2
           /\ gateway.wakeDebounce[k] = gateway.now
           /\ gateway.wakeDebounce[k2] # 0
           /\ gateway.wakeDebounce[k2] < gateway.now
           /\ gateway.now - gateway.wakeDebounce[k2] < ReviewDebounceMs

StartsWith(text, head) ==
    Len(head) <= Len(text) /\ SubSeq(text, 1, Len(head)) = head

\* C39: a card's log of a phase is append-only across runs.  When a later run
\* of the phase takes over the log of a card that stays on the board, the
\* output the earlier run wrote to it is still the head of what it holds.
C39_LogAppendOnly ==
    [][\A c \in CardIds : \A ph \in DOMAIN NoHandles :
           (/\ Exists(c) /\ cards'[c] # NoCard
            /\ files[c][ph].exists /\ files'[c][ph].exists
            /\ files[c][ph].text \notin {<<>>, SpawnErrorText}
            /\ files'[c][ph].owner # files[c][ph].owner)
           => StartsWith(files'[c][ph].text, files[c][ph].text)
      ]_vars

\* One live process for every number a pid can take, none of them behind a
\* registry handle: what a signal for that number would hit.
Probes ==
    {[NewProc(1, "impl", FALSE, TRUE, "probe") EXCEPT !.id = -1, !.pid = x] :
        x \in ((0 - MaxCardLogs - 1)..(MaxCardLogs + 1)) \ {0}}

\* The numbers whose process a termination step signalled.
SignalledPids(after) == {p.pid : p \in {q \in Probes : q \notin after}}

\* C40: no signal is sent for a negative sentinel pid.  Whatever stop and
\* delete hand to the operating system is a positive pid; a stop whose pid is
\* negative signals nothing and touches no process but the one behind the
\* handle in memory; a delete of a card whose latest run has a negative pid
\* and no handle signals nothing and leaves the card's processes alone.
C40_NoSignalForSentinel ==
    [][\A c \in CardIds :
           /\ (Exists(c) /\ StopPid(c) # 0 /\ StopRun(c)) =>
                  LET hit == SignalledPids(StopKill(c, Probes, StopPid(c)))
                  IN /\ \A x \in hit : x > 0
                     /\ StopPid(c) < 0 =>
                            /\ hit = {}
                            /\ \A p \in procs[c] :
                                   p.id # ActiveChild(c).id => p \in procs'[c]
           /\ (Exists(c) /\ DeleteCard(c)) =>
                  LET hit == SignalledPids(
                                 KillRecorded(c, KillRegistered(
                                     KillRegistered(Probes, active[c].impl),
                                     active[c].review)))
                  IN /\ \A x \in hit : x > 0
                     /\ (HasRun(c) /\ runs[c][LatestRun(c)].pid < 0
                           /\ active[c] = NoHandles) =>
                            (hit = {} /\ procs'[c] = procs[c])
      ]_vars

\* A stop of an HTTP run that has no handle in memory: the stop is recorded
\* for the sentinel and a process of the card lives on.
C40_Witness ==
    /\ last.op = "stop" /\ last.res = "ok" /\ last.code < 0
    /\ \E c \in CardIds :
           /\ last.card = c /\ Exists(c) /\ cards[c].status = "Stopped"
           /\ HasRun(c) /\ runs[c][LatestRun(c)].pid = last.code
           /\ \A p \in procs[c] : ~p.http
           /\ \E p \in procs[c] : p.alive

====
